---- MODULE Spec2Model ----
(***************************************************************************)
(* A model of the scheduling core of the Loom learning graph               *)
(* (src/src/learn.ts): the prerequisite-unlock resolver                    *)
(* unlockEligibleNodes, the next-node selector pickNextNode and the        *)
(* spaced-repetition scheduler scheduleReview.                             *)
(*                                                                         *)
(* Timestamps are integers counted in ticks, TicksPerDay ticks to a day;   *)
(* an optional field that is undefined holds Undefined.  Node ids are the  *)
(* integers 1..Len(records); AbsentId is an id that no node carries.       *)
(***************************************************************************)
EXTENDS Integers, Sequences, FiniteSets, TLC

VARIABLES
    records,          \* the loaded node set, in input order (NodeRecord[])
    now,              \* the wall clock read by new Date()
    srsIntervals,     \* config.srsIntervals
    masteryThreshold, \* config.masteryThreshold
    result,           \* what the last operation was given and what it returned
    calls             \* the invocations in progress: what each loaded, what it has yet to save

vars == <<records, now, srsIntervals, masteryThreshold, result, calls>>

----------------------------------------------------------------------------
(* Bounds of the model *)

MaxNodes == 2
MaxTime == 1
MaxIntervals == 2
MaxDays == 2
MaxCallers == 2
OutOfRange == 2
TicksPerDay == 2

(* Program constants *)

MaxFamiliarity == 5
Undefined == -1
AbsentId == 0

Statuses == {"locked", "available", "in-progress", "mastered", "paused"}
Ratings == {"again", "hard", "good", "easy"}
Thresholds == {0, 4, 6}

----------------------------------------------------------------------------
(* Helpers *)

Min2(a, b) == IF a <= b THEN a ELSE b
Max2(a, b) == IF a >= b THEN a ELSE b

clamp(value, min, max) == Min2(max, Max2(min, value))

\* intervals[i] of a JavaScript array: undefined outside 0..length-1
ArrayAt(arr, i) == IF i >= 0 /\ i < Len(arr) THEN arr[i + 1] ELSE Undefined

\* a || b on numbers-or-undefined: a when a is truthy (defined and not 0)
OrElse(a, b) == IF a # Undefined /\ a # 0 THEN a ELSE b

RECURSIVE SeqsUpTo(_, _)
SeqsUpTo(S, n) ==
    IF n = 0 THEN {<<>>}
    ELSE LET shorter == SeqsUpTo(S, n - 1)
         IN  shorter \cup {Append(s, x) : s \in {t \in shorter : Len(t) = n - 1}, x \in S}

NoResult ==
    [op |-> "none", before |-> <<>>, target |-> 0, rating |-> "none",
     at |-> 0, returned |-> 0, reason |-> "none", unlocked |-> <<>>,
     argument |-> <<>>, error |-> "none", saved |-> <<>>, logged |-> <<>>,
     serial |-> <<>>, overlapped |-> FALSE]

----------------------------------------------------------------------------
(* scheduleReview *)

\* mutants: plausible slips in the scheduler
nextFamiliarityUnclamped(node, rating) ==
    Max2(0, node.familiarity + (IF rating = "again" THEN -1
                                ELSE IF rating = "hard" THEN 0
                                ELSE IF rating = "good" THEN 1 ELSE 2))

familiarityDeltaFlat(rating) == IF rating = "again" THEN -1 ELSE 1

intervalDaysNoFallback(stage, intervals) ==
    IF stage >= 0 /\ stage < Len(intervals) THEN intervals[stage + 1] ELSE 1

addDaysDropped(t, days) == t

nextStatusStrict(familiarity, threshold) ==
    IF familiarity > threshold THEN "mastered" ELSE "in-progress"

familiarityDelta(rating) ==
    IF rating = "again" THEN -1
    ELSE IF rating = "hard" THEN 0
    ELSE IF rating = "good" THEN 1
    ELSE 2

nextFamiliarity(node, rating) ==
    clamp(node.familiarity + familiarityDelta(rating), 0, MaxFamiliarity)

nextSrsStage(node, rating, intervals) ==
    LET maxStage == Len(intervals) - 1
    IN  IF rating = "again" THEN Max2(0, node.srsStage - 1)
        ELSE IF rating = "hard" THEN clamp(node.srsStage, 0, maxStage)
        ELSE IF rating = "good" THEN clamp(node.srsStage + 1, 0, maxStage)
        ELSE clamp(node.srsStage + 2, 0, maxStage)

intervalDays(stage, intervals) ==
    OrElse(ArrayAt(intervals, stage),
           OrElse(ArrayAt(intervals, Len(intervals) - 1), 1))

addDays(t, days) == t + days * TicksPerDay

nextStatus(familiarity, threshold) ==
    IF familiarity >= threshold THEN "mastered" ELSE "in-progress"

scheduleReview(node, rating, intervals, threshold, t) ==
    LET familiarity == nextFamiliarity(node, rating)
        srsStage == nextSrsStage(node, rating, intervals)
    IN  [node EXCEPT
            !.familiarity = familiarity,
            !.srsStage = srsStage,
            !.lastReviewed = t,
            !.nextReview = addDays(t, intervalDays(srsStage, intervals)),
            !.status = nextStatus(familiarity, threshold)]

\* mutant: next aliases the argument instead of copying it
scheduleReviewInPlace(node, rating, intervals, threshold, t) ==
    LET next == scheduleReview(node, rating, intervals, threshold, t)
    IN  [argument |-> next, returned |-> next]

\* a call of scheduleReview: next = {...node} is a copy, so the argument is
\* left as it was given and the copy is what is written to and returned
scheduleReviewCall(node, rating, intervals, threshold, t) ==
    [argument |-> node,
     returned |-> scheduleReview(node, rating, intervals, threshold, t)]

----------------------------------------------------------------------------
(* Specification of the scheduler alone: one node with any field values,   *)
(* any configuration, reviewed any number of times.                        *)

\* thresholds of the schedule inputs: every familiarity masters, or the default
ScheduleThresholds == {0, 4}
ScheduleFamiliarities == (0 - OutOfRange) .. (MaxFamiliarity + OutOfRange)
ScheduleStages == (0 - OutOfRange) .. (MaxIntervals + OutOfRange)
\* the interval table of the specification's end-to-end scenarios 3 and 4
ScenarioIntervals == <<1, 3, 7, 14>>
IntervalInputs == SeqsUpTo(0 .. MaxDays, MaxIntervals) \cup {ScenarioIntervals}

InitSchedule ==
    /\ now = 0
    /\ srsIntervals \in IntervalInputs
    /\ masteryThreshold \in ScheduleThresholds
    /\ \E st \in Statuses, f \in ScheduleFamiliarities, s \in ScheduleStages :
          records = << [id |-> 1, status |-> st, familiarity |-> f, srsStage |-> s,
                        lastReviewed |-> Undefined, nextReview |-> Undefined,
                        created |-> 0, prerequisites |-> <<AbsentId>>,
                        title |-> "title", tags |-> <<"tag">>,
                        unlocks |-> <<AbsentId>>, body |-> "body"] >>
    /\ result = NoResult
    /\ calls = <<>>

Schedule ==
    \E rating \in Ratings :
        LET call == scheduleReviewCall(records[1], rating, srsIntervals,
                                       masteryThreshold, now)
        IN  /\ records' = [records EXCEPT ![1] = call.returned]
            /\ result' = [NoResult EXCEPT !.op = "schedule", !.before = records,
                                          !.target = 1, !.rating = rating,
                                          !.at = now, !.returned = 1,
                                          !.argument = call.argument]
            /\ UNCHANGED <<calls, now, srsIntervals, masteryThreshold>>

Tick ==
    /\ now < MaxTime
    /\ now' = now + 1
    /\ UNCHANGED <<calls, records, srsIntervals, masteryThreshold, result>>

NextSchedule == Schedule \/ Tick

SpecSchedule == InitSchedule /\ [][NextSchedule]_vars

\* the node handed to the last scheduleReview call, and the node it returned
Scheduled == result.op = "schedule"
Given == result.before[1]
Returned == records[1]

\* C2: after schedule the srsStage lies in [0, len(intervals)-1] for every
\* rating, every non-empty intervals and every starting srsStage.
C2_StageWithinIntervals ==
    (Scheduled /\ Len(srsIntervals) > 0)
        => Returned.srsStage \in 0 .. (Len(srsIntervals) - 1)

\* C3: after schedule the familiarity lies in [0,5] for every starting
\* familiarity and every rating.
C3_FamiliarityWithinRange ==
    Scheduled => Returned.familiarity \in 0 .. 5

C3_Witness ==
    /\ Scheduled
    /\ \/ Given.familiarity > 5 /\ result.rating = "easy"
       \/ Given.familiarity < 0 /\ result.rating = "again"

\* C4: schedule follows the rating table: again gives familiarity
\* clamp(f-1,0,5) and stage max(0,stage-1); hard clamp(f,0,5) and
\* clamp(stage,0,max); good clamp(f+1,0,5) and clamp(stage+1,0,max); easy
\* clamp(f+2,0,5) and clamp(stage+2,0,max), with max = len(intervals)-1.
\* With familiarity 2, stage 1 and intervals [1,3,7,14], good yields
\* familiarity 3, stage 2 and a review 7 days on; again yields familiarity 1,
\* stage 0 and a review 1 day on.
TableClamp(v, lo, hi) ==
    LET raised == IF v > lo THEN v ELSE lo
    IN  IF raised < hi THEN raised ELSE hi

C4_RatingTable ==
    Scheduled =>
        LET f == Given.familiarity
            stage == Given.srsStage
            max == Len(srsIntervals) - 1
            r == result.rating
            scenario == /\ f = 2
                        /\ stage = 1
                        /\ srsIntervals = ScenarioIntervals
        IN  /\ r = "again" =>
                /\ Returned.familiarity = TableClamp(f - 1, 0, 5)
                /\ Returned.srsStage = (IF stage - 1 > 0 THEN stage - 1 ELSE 0)
            /\ r = "hard" =>
                /\ Returned.familiarity = TableClamp(f, 0, 5)
                /\ Returned.srsStage = TableClamp(stage, 0, max)
            /\ r = "good" =>
                /\ Returned.familiarity = TableClamp(f + 1, 0, 5)
                /\ Returned.srsStage = TableClamp(stage + 1, 0, max)
            /\ r = "easy" =>
                /\ Returned.familiarity = TableClamp(f + 2, 0, 5)
                /\ Returned.srsStage = TableClamp(stage + 2, 0, max)
            /\ (scenario /\ r = "good") =>
                /\ Returned.familiarity = 3
                /\ Returned.srsStage = 2
                /\ Returned.nextReview = result.at + 7 * TicksPerDay
            /\ (scenario /\ r = "again") =>
                /\ Returned.familiarity = 1
                /\ Returned.srsStage = 0
                /\ Returned.nextReview = result.at + 1 * TicksPerDay

C4_Witness ==
    /\ Scheduled
    /\ Given.familiarity = 2
    /\ Given.srsStage = 1
    /\ srsIntervals = ScenarioIntervals
    /\ result.rating = "good"
    /\ Returned.srsStage = 2

\* C5: the returned status is mastered iff the updated familiarity is >=
\* masteryThreshold, and in-progress otherwise, whatever the input status.
C5_StatusFromFamiliarity ==
    Scheduled =>
        /\ Returned.status = "mastered" <=> Returned.familiarity >= masteryThreshold
        /\ Returned.status # "mastered" => Returned.status = "in-progress"

C5_Witness ==
    /\ Scheduled
    /\ Given.status = "paused"
    /\ Returned.status = "mastered"
    /\ Returned.familiarity = masteryThreshold

\* C6 as stated: nextReview = now + d days with d = intervals[s] when the
\* resulting stage s is a valid index, the last interval when s is out of
\* range and intervals is non-empty, and 1 when intervals is empty.
C6_DelayAsStated ==
    Scheduled =>
        LET s == Returned.srsStage
            n == Len(srsIntervals)
            d == IF s \in 0 .. (n - 1) THEN srsIntervals[s + 1]
                 ELSE IF n > 0 THEN srsIntervals[n]
                 ELSE 1
        IN  Returned.nextReview = result.at + d * TicksPerDay

\* C6 amended: nextReview = now + d days with d = intervals[s] when s is a
\* valid index and intervals[s] is not 0; otherwise the last interval when
\* intervals is non-empty and its last element is not 0; otherwise 1.
C6_DelayWithZeroFallback ==
    Scheduled =>
        LET s == Returned.srsStage
            n == Len(srsIntervals)
            d == IF s \in 0 .. (n - 1) /\ srsIntervals[s + 1] # 0 THEN srsIntervals[s + 1]
                 ELSE IF n > 0 /\ srsIntervals[n] # 0 THEN srsIntervals[n]
                 ELSE 1
        IN  Returned.nextReview = result.at + d * TicksPerDay

C6_Witness ==
    /\ Scheduled
    /\ Len(srsIntervals) = 2
    /\ Returned.srsStage = 0
    /\ srsIntervals[1] = 0
    /\ srsIntervals[2] = 2
    /\ Returned.nextReview = result.at + 2 * TicksPerDay

\* C7: with positive intervals schedule always reschedules: lastReviewed and
\* nextReview are both set, lastReviewed is now and nextReview is strictly
\* later, for every rating and after any number of consecutive reviews.
AllPositive(intervals) == \A i \in 1 .. Len(intervals) : intervals[i] > 0

C7_AlwaysReschedules ==
    (Scheduled /\ AllPositive(srsIntervals)) =>
        /\ Returned.lastReviewed # Undefined
        /\ Returned.nextReview # Undefined
        /\ Returned.lastReviewed = result.at
        /\ Returned.nextReview > Returned.lastReviewed

C7_Witness ==
    /\ Scheduled
    /\ AllPositive(srsIntervals)
    /\ Len(srsIntervals) > 0
    /\ result.rating = "again"
    /\ Given.lastReviewed # Undefined
    /\ Given.lastReviewed < result.at
    /\ Returned.srsStage = 0

----------------------------------------------------------------------------
(* unlockEligibleNodes *)

\* mutant: a prerequisite whose id resolves to no node counts as satisfied
prereqSatisfiedFailOpen(recs, id, threshold) ==
    \A i \in 1 .. Len(recs) :
        recs[i].id = id =>
            (recs[i].status = "mastered" \/ recs[i].familiarity >= threshold)

\* mutant: a prerequisite unlocked earlier in the same pass counts as satisfied
prereqSatisfiedOnceUnlocked(recs, id, threshold) ==
    \E i \in 1 .. Len(recs) :
        /\ recs[i].id = id
        /\ \/ recs[i].status \in {"mastered", "available"}
           \/ recs[i].familiarity >= threshold

\* new Map(records.map(...)).get(id): the last record carrying the id, 0 if none
byId(recs, id) ==
    LET hits == {i \in 1 .. Len(recs) : recs[i].id = id}
    IN  IF hits = {} THEN 0 ELSE CHOOSE i \in hits : \A j \in hits : j <= i

prereqSatisfied(recs, id, threshold) ==
    LET i == byId(recs, id)
    IN  IF i = 0 THEN FALSE
        ELSE recs[i].status = "mastered" \/ recs[i].familiarity >= threshold

meetsPrereqs(recs, node, threshold) ==
    \A k \in 1 .. Len(node.prerequisites) :
        prereqSatisfied(recs, node.prerequisites[k], threshold)

\* mutant: every locked node that was examined is reported as unlocked
RECURSIVE unlockFromReportingAll(_, _, _, _)
unlockFromReportingAll(recs, i, unlocked, threshold) ==
    IF i > Len(recs) THEN [records |-> recs, unlocked |-> unlocked]
    ELSE IF recs[i].status # "locked"
         THEN unlockFromReportingAll(recs, i + 1, unlocked, threshold)
    ELSE IF \A k \in 1 .. Len(recs[i].prerequisites) :
                \E j \in 1 .. Len(recs) :
                    /\ recs[j].id = recs[i].prerequisites[k]
                    /\ \/ recs[j].status = "mastered"
                       \/ recs[j].familiarity >= threshold
         THEN unlockFromReportingAll([recs EXCEPT ![i].status = "available"], i + 1,
                                     Append(unlocked, i), threshold)
         ELSE unlockFromReportingAll(recs, i + 1, Append(unlocked, i), threshold)

\* mutant: the pass stops at the first node it unlocks
RECURSIVE unlockFromFirstOnly(_, _, _, _)
unlockFromFirstOnly(recs, i, unlocked, threshold) ==
    IF i > Len(recs) THEN [records |-> recs, unlocked |-> unlocked]
    ELSE IF recs[i].status # "locked"
         THEN unlockFromFirstOnly(recs, i + 1, unlocked, threshold)
    ELSE IF meetsPrereqs(recs, recs[i], threshold)
         THEN [records |-> [recs EXCEPT ![i].status = "available"],
               unlocked |-> Append(unlocked, i)]
         ELSE unlockFromFirstOnly(recs, i + 1, unlocked, threshold)

\* records.forEach from position i on; recs is mutated in place as it goes
RECURSIVE unlockFrom(_, _, _, _)
unlockFrom(recs, i, unlocked, threshold) ==
    IF i > Len(recs) THEN [records |-> recs, unlocked |-> unlocked]
    ELSE IF recs[i].status # "locked" THEN unlockFrom(recs, i + 1, unlocked, threshold)
    ELSE IF meetsPrereqs(recs, recs[i], threshold)
         THEN unlockFrom([recs EXCEPT ![i].status = "available"], i + 1,
                         Append(unlocked, i), threshold)
         ELSE unlockFrom(recs, i + 1, unlocked, threshold)

unlockEligibleNodes(recs, threshold) == unlockFrom(recs, 1, <<>>, threshold)

----------------------------------------------------------------------------
(* Specification of the resolver alone: any node set with unique ids, any   *)
(* threshold.  Only a locked node's prerequisites are read (learn.ts:340),  *)
(* so locked nodes draw theirs from every set of ids, the absent id and     *)
(* their own included, and the other nodes from two lists.                  *)

ResolveFamiliarities == {1, 4}

RECURSIVE Ascending(_)
Ascending(S) ==
    IF S = {} THEN <<>>
    ELSE LET m == CHOOSE x \in S : \A y \in S : x <= y
         IN  <<m>> \o Ascending(S \ {m})

PrereqInputs(n, status) ==
    IF status = "locked" THEN {Ascending(S) : S \in SUBSET (0 .. n)}
    ELSE {<<>>, <<AbsentId>>}

\* the nodes a set of n nodes is drawn from, before each is given its id
ResolveNodes(n) ==
    UNION {{[id |-> 0, status |-> st, familiarity |-> f, srsStage |-> 0,
             lastReviewed |-> Undefined, nextReview |-> Undefined,
             created |-> Undefined, prerequisites |-> p,
             title |-> "title", tags |-> <<"tag">>,
             unlocks |-> <<AbsentId>>, body |-> "body"] :
                f \in ResolveFamiliarities, p \in PrereqInputs(n, st)} :
           st \in Statuses}

InitResolve ==
    /\ now = 0
    /\ srsIntervals = ScenarioIntervals
    /\ masteryThreshold \in Thresholds
    /\ \E n \in 1 .. MaxNodes :
          \E drawn \in [1 .. n -> ResolveNodes(n)] :
              records = [i \in 1 .. n |-> [drawn[i] EXCEPT !.id = i]]
    /\ result = NoResult
    /\ calls = <<>>

Resolve ==
    LET out == unlockEligibleNodes(records, masteryThreshold)
    IN  /\ records' = out.records
        /\ result' = [NoResult EXCEPT !.op = "resolve", !.before = records,
                                      !.unlocked = out.unlocked]
        /\ UNCHANGED <<calls, now, srsIntervals, masteryThreshold>>

NextResolve == Resolve

SpecResolve == InitResolve /\ [][NextResolve]_vars

Resolved == result.op = "resolve"

\* C1: for a node set with unique ids, a node locked before resolve is
\* available after it iff every id in its prerequisites names a node of the
\* set that is mastered or has familiarity >= masteryThreshold; so a locked
\* node without prerequisites always unlocks and one with a prerequisite id
\* absent from the set never does.
UniqueIds(recs) ==
    \A i, j \in 1 .. Len(recs) : recs[i].id = recs[j].id => i = j

PrereqIds(node) == {node.prerequisites[k] : k \in 1 .. Len(node.prerequisites)}

C1_UnlocksIffPrereqsMet ==
    (Resolved /\ UniqueIds(result.before)) =>
        LET before == result.before
            ids == {before[j].id : j \in 1 .. Len(before)}
            met(p) == \E j \in 1 .. Len(before) :
                          /\ before[j].id = p
                          /\ \/ before[j].status = "mastered"
                             \/ before[j].familiarity >= masteryThreshold
        IN  \A i \in 1 .. Len(before) :
                before[i].status = "locked" =>
                    /\ records[i].status = "available"
                          <=> \A p \in PrereqIds(before[i]) : met(p)
                    /\ PrereqIds(before[i]) = {} => records[i].status = "available"
                    /\ ~(PrereqIds(before[i]) \subseteq ids)
                          => records[i].status = "locked"

C1_Witness ==
    /\ Resolved
    /\ \E i, j \in 1 .. Len(records) :
          /\ result.before[i].status = "locked"
          /\ result.before[i].prerequisites # <<>>
          /\ records[i].status = "available"
          /\ result.before[j].status = "locked"
          /\ AbsentId \in PrereqIds(result.before[j])
          /\ records[j].status = "locked"

----------------------------------------------------------------------------
(* pickNextNode *)

\* positions 1..n in input order
RECURSIVE Positions(_)
Positions(n) == IF n = 0 THEN <<>> ELSE Append(Positions(n - 1), n)

\* Array.prototype.filter over a list of positions
RECURSIVE filter(_, _)
filter(list, keep) ==
    IF list = <<>> THEN <<>>
    ELSE IF Head(list) \in keep THEN <<Head(list)>> \o filter(Tail(list), keep)
    ELSE filter(Tail(list), keep)

\* Array.prototype.sort, which is stable: x goes before the first element
\* that compares greater than it; cmp[a, b] is the comparator's result
\* mutant: an unstable sort, x goes before the elements it ties with
RECURSIVE insertBeforeTies(_, _, _)
insertBeforeTies(sorted, x, cmp) ==
    IF sorted = <<>> THEN <<x>>
    ELSE IF cmp[Head(sorted), x] >= 0 THEN <<x>> \o sorted
    ELSE <<Head(sorted)>> \o insertBeforeTies(Tail(sorted), x, cmp)

RECURSIVE insert(_, _, _)
insert(sorted, x, cmp) ==
    IF sorted = <<>> THEN <<x>>
    ELSE IF cmp[Head(sorted), x] > 0 THEN <<x>> \o sorted
    ELSE <<Head(sorted)>> \o insert(Tail(sorted), x, cmp)

RECURSIVE sortInto(_, _, _)
sortInto(sorted, list, cmp) ==
    IF list = <<>> THEN sorted
    ELSE sortInto(insert(sorted, Head(list), cmp), Tail(list), cmp)

sort(list, cmp) == sortInto(<<>>, list, cmp)

\* new Date(value || 0).getTime() and created ? new Date(created).getTime() : 0
timeOf(value) == IF value = Undefined THEN 0 ELSE value

\* mutants: plausible slips in the selector
unlockedOfUnfiltered(recs) == Positions(Len(recs))

isDueStrict(node, t) ==
    IF node.nextReview = Undefined THEN FALSE ELSE node.nextReview < t

unlockedOf(recs) ==
    filter(Positions(Len(recs)), {i \in 1 .. Len(recs) : recs[i].status # "locked"})

isDue(node, t) ==
    IF node.nextReview = Undefined THEN FALSE ELSE node.nextReview <= t

dueOf(recs, t) ==
    filter(unlockedOf(recs), {i \in 1 .. Len(recs) : isDue(recs[i], t)})

availableOf(recs) ==
    filter(unlockedOf(recs), {i \in 1 .. Len(recs) : recs[i].status = "available"})

inProgressOf(recs) ==
    filter(unlockedOf(recs), {i \in 1 .. Len(recs) : recs[i].status = "in-progress"})

byNextReview(recs) ==
    [a, b \in 1 .. Len(recs) |->
        timeOf(recs[a].nextReview) - timeOf(recs[b].nextReview)]

\* mutant: the created tie-break is left out
byFamiliarityIgnoringCreated(recs) ==
    [a, b \in 1 .. Len(recs) |-> recs[a].familiarity - recs[b].familiarity]

byFamiliarityThenCreated(recs) ==
    [a, b \in 1 .. Len(recs) |->
        IF recs[a].familiarity # recs[b].familiarity
        THEN recs[a].familiarity - recs[b].familiarity
        ELSE timeOf(recs[a].created) - timeOf(recs[b].created)]

byFamiliarity(recs) ==
    [a, b \in 1 .. Len(recs) |-> recs[a].familiarity - recs[b].familiarity]

\* mutant: new material is offered before a due review
pickNextNodeNewFirst(recs, t) ==
    IF availableOf(recs) # <<>>
    THEN [node |-> sort(availableOf(recs), byFamiliarityThenCreated(recs))[1],
          reason |-> "new-available"]
    ELSE IF dueOf(recs, t) # <<>>
    THEN [node |-> sort(dueOf(recs, t), byNextReview(recs))[1], reason |-> "due-review"]
    ELSE IF inProgressOf(recs) # <<>>
    THEN [node |-> sort(inProgressOf(recs), byFamiliarity(recs))[1], reason |-> "continue"]
    ELSE [node |-> 0, reason |-> "none"]

\* mutant: begun material is continued before new material is offered
pickNextNodeContinueFirst(recs, t) ==
    IF dueOf(recs, t) # <<>>
    THEN [node |-> sort(dueOf(recs, t), byNextReview(recs))[1], reason |-> "due-review"]
    ELSE IF inProgressOf(recs) # <<>>
    THEN [node |-> sort(inProgressOf(recs), byFamiliarity(recs))[1], reason |-> "continue"]
    ELSE IF availableOf(recs) # <<>>
    THEN [node |-> sort(availableOf(recs), byFamiliarityThenCreated(recs))[1],
          reason |-> "new-available"]
    ELSE [node |-> 0, reason |-> "none"]

\* the position of the chosen node (0 for null) and the reason ("none" when absent)
pickNextNode(recs, t) ==
    IF dueOf(recs, t) # <<>>
    THEN [node |-> sort(dueOf(recs, t), byNextReview(recs))[1], reason |-> "due-review"]
    ELSE IF availableOf(recs) # <<>>
    THEN [node |-> sort(availableOf(recs), byFamiliarityThenCreated(recs))[1],
          reason |-> "new-available"]
    ELSE IF inProgressOf(recs) # <<>>
    THEN [node |-> sort(inProgressOf(recs), byFamiliarity(recs))[1], reason |-> "continue"]
    ELSE [node |-> 0, reason |-> "none"]

----------------------------------------------------------------------------
(* Specification of the selector alone: any node set, read at any time.     *)
(* created is read only on available nodes (learn.ts:378-379), so only      *)
(* those draw it.                                                           *)

SelectFamiliarities == {0, 2}
SelectReviews == {Undefined} \cup (0 .. (MaxTime + 1))

CreatedInputs(status) ==
    IF status = "available" THEN {Undefined, 1, 2} ELSE {Undefined}

SelectNodes ==
    UNION {{[id |-> 0, status |-> st, familiarity |-> f, srsStage |-> 0,
             lastReviewed |-> Undefined, nextReview |-> r,
             created |-> c, prerequisites |-> <<>>,
             title |-> "title", tags |-> <<"tag">>,
             unlocks |-> <<AbsentId>>, body |-> "body"] :
                f \in SelectFamiliarities, r \in SelectReviews, c \in CreatedInputs(st)} :
           st \in Statuses}

InitSelect ==
    /\ now \in 0 .. MaxTime
    /\ srsIntervals = ScenarioIntervals
    /\ masteryThreshold = 4
    /\ \E n \in 0 .. MaxNodes :
          \E drawn \in [1 .. n -> SelectNodes] :
              records = [i \in 1 .. n |-> [drawn[i] EXCEPT !.id = i]]
    /\ result = NoResult
    /\ calls = <<>>

Select ==
    LET picked == pickNextNode(records, now)
    IN  /\ result' = [NoResult EXCEPT !.op = "select", !.before = records, !.at = now,
                                      !.returned = picked.node, !.reason = picked.reason]
        /\ UNCHANGED <<calls, records, now, srsIntervals, masteryThreshold>>

NextSelect == Select

SpecSelect == InitSelect /\ [][NextSelect]_vars

Selected == result.op = "select"

\* the positions of the nodes that are not locked and have nextReview <= now
DueNow ==
    {i \in 1 .. Len(records) :
        /\ records[i].status # "locked"
        /\ records[i].nextReview # Undefined
        /\ records[i].nextReview <= result.at}

\* C8: whenever some node that is not locked has nextReview <= now, select
\* returns reason due-review and one of those due nodes, even when
\* available nodes of lower familiarity exist.
C8_DueReviewFirst ==
    (Selected /\ DueNow # {}) =>
        /\ result.reason = "due-review"
        /\ result.returned \in DueNow

C8_Witness ==
    /\ Selected
    /\ result.returned \in DueNow
    /\ \E i \in 1 .. Len(records) :
          /\ records[i].status = "available"
          /\ i \notin DueNow
          /\ records[i].familiarity < records[result.returned].familiarity

\* C9: the node select returns, if any, is never locked, even when locked
\* nodes carry a nextReview <= now.
C9_NeverLocked ==
    (Selected /\ result.returned # 0) =>
        records[result.returned].status # "locked"

C9_Witness ==
    /\ Selected
    /\ result.returned # 0
    /\ \E i \in 1 .. Len(records) :
          /\ records[i].status = "locked"
          /\ records[i].nextReview # Undefined
          /\ records[i].nextReview <= result.at
          /\ i < result.returned

\* C10 as stated: select returns no node and no reason iff every node is
\* locked, mastered or paused.
C10_NoneIffNothingActionable ==
    Selected =>
        ((result.returned = 0 /\ result.reason = "none")
            <=> \A i \in 1 .. Len(records) :
                    records[i].status \in {"locked", "mastered", "paused"})

\* C10 amended: select returns no node and no reason iff every node is
\* locked, or is mastered or paused and has no nextReview <= now.
C10_NoneIffNothingDueOrOpen ==
    Selected =>
        /\ (result.returned = 0 /\ result.reason = "none")
              <=> \A i \in 1 .. Len(records) :
                      \/ records[i].status = "locked"
                      \/ /\ records[i].status \in {"mastered", "paused"}
                         /\ i \notin DueNow
        /\ result.returned = 0 <=> result.reason = "none"

C10_Witness ==
    /\ Selected
    /\ result.returned = 0
    /\ \E i, j \in 1 .. Len(records) :
          /\ records[i].status = "mastered"
          /\ records[i].nextReview # Undefined
          /\ records[i].nextReview > result.at
          /\ records[j].status = "locked"
          /\ records[j].nextReview # Undefined
          /\ records[j].nextReview <= result.at

\* C11: in the due tier the returned node has the minimum nextReview among
\* the due nodes, and among those sharing the minimum it is the first in
\* input order.
C11_EarliestDueFirstInOrder ==
    (Selected /\ DueNow # {}) =>
        /\ result.returned \in DueNow
        /\ \A i \in DueNow :
              /\ records[result.returned].nextReview <= records[i].nextReview
              /\ records[i].nextReview = records[result.returned].nextReview
                    => result.returned <= i

C11_Witness ==
    /\ Selected
    /\ result.returned \in DueNow
    /\ \E i \in DueNow :
          /\ i > result.returned
          /\ records[i].nextReview = records[result.returned].nextReview

\* the positions of the nodes whose status is st
WithStatus(st) == {i \in 1 .. Len(records) : records[i].status = st}

\* created as the selector orders it: a missing created is the epoch
CreatedOrEpoch(i) ==
    IF records[i].created = Undefined THEN 0 ELSE records[i].created

\* C12: with no due node and some available node, select returns, with
\* reason new-available, an available node of minimum familiarity; among
\* those the earliest created, a missing created counting as the epoch;
\* among the remaining ties the first in input order.
C12_NewAvailableOrder ==
    (Selected /\ DueNow = {} /\ WithStatus("available") # {}) =>
        LET r == result.returned
            lowest == {i \in WithStatus("available") :
                          \A j \in WithStatus("available") :
                              records[i].familiarity <= records[j].familiarity}
            earliest == {i \in lowest :
                            \A j \in lowest : CreatedOrEpoch(i) <= CreatedOrEpoch(j)}
        IN  /\ result.reason = "new-available"
            /\ r \in earliest
            /\ \A i \in earliest : r <= i

C12_Witness ==
    /\ Selected
    /\ result.reason = "new-available"
    /\ result.returned = 2
    /\ records[1].status = "available"
    /\ records[1].familiarity = records[2].familiarity
    /\ records[1].created # Undefined
    /\ records[2].created = Undefined

\* C13: with no due node, any available node makes select return an
\* available node with reason new-available, however low the familiarity of
\* the in-progress nodes; reason continue is returned only when no node is
\* due and none is available, and then the returned node is the in-progress
\* node of lowest familiarity, the first in input order among ties.
C13_TierOrder ==
    Selected =>
        LET r == result.returned
        IN  /\ (DueNow = {} /\ WithStatus("available") # {}) =>
                  /\ result.reason = "new-available"
                  /\ r \in WithStatus("available")
            /\ result.reason = "continue" =>
                  /\ DueNow = {}
                  /\ WithStatus("available") = {}
                  /\ r \in WithStatus("in-progress")
                  /\ \A i \in WithStatus("in-progress") :
                        /\ records[r].familiarity <= records[i].familiarity
                        /\ records[i].familiarity = records[r].familiarity => r <= i
            /\ (DueNow = {} /\ WithStatus("available") = {}
                    /\ WithStatus("in-progress") # {}) => result.reason = "continue"

C13_Witness ==
    /\ Selected
    /\ result.reason = "new-available"
    /\ \E i \in WithStatus("in-progress") :
          records[i].familiarity < records[result.returned].familiarity

\* C16: a locked node that lists its own id among its prerequisites is not
\* unlocked by resolve on the strength of its own familiarity or mastery.
C16_NoSelfUnlock ==
    Resolved =>
        \A i \in 1 .. Len(records) :
            (/\ result.before[i].status = "locked"
             /\ result.before[i].id \in PrereqIds(result.before[i]))
                => records[i].status = "locked"

\* C17: resolve returns exactly the nodes whose status changed, each once
\* and in input order, and changes nothing but the status of those nodes,
\* from locked to available.
C17_ResolveFrame ==
    Resolved =>
        LET before == result.before
            changed == {i \in 1 .. Len(before) : records[i].status # before[i].status}
        IN  /\ Len(records) = Len(before)
            /\ result.unlocked = Ascending(changed)
            /\ \A i \in 1 .. Len(before) :
                  IF i \in changed
                  THEN /\ before[i].status = "locked"
                       /\ records[i] = [before[i] EXCEPT !.status = "available"]
                  ELSE records[i] = before[i]

C17_Witness ==
    /\ Resolved
    /\ Len(records) = 2
    /\ result.unlocked = <<2>>
    /\ result.before[1].status = "locked"
    /\ records[1].status = "locked"
    /\ result.before[2].prerequisites # <<>>

\* C19: resolve is a single pass whose outcome does not depend on the input
\* order: a node unlocked during the pass never unlocks a dependent in the
\* same call, and every permutation of the input unlocks the same nodes.
UnlockedIds(recs, positions) == {recs[positions[k]].id : k \in 1 .. Len(positions)}

C19_OrderIndependent ==
    Resolved =>
        LET before == result.before
            n == Len(before)
            passed == {result.unlocked[k] : k \in 1 .. Len(result.unlocked)}
        IN  /\ \A i \in passed, j \in passed :
                  before[j].id \in PrereqIds(before[i])
                      => before[j].familiarity >= masteryThreshold
            /\ \A order \in Permutations(1 .. n) :
                  LET shuffled == [k \in 1 .. n |-> before[order[k]]]
                  IN  UnlockedIds(shuffled,
                                  unlockEligibleNodes(shuffled, masteryThreshold).unlocked)
                          = UnlockedIds(before, result.unlocked)

C19_Witness ==
    /\ Resolved
    /\ \E i, j \in 1 .. Len(records) :
          /\ j < i
          /\ result.unlocked = <<j>>
          /\ result.before[i].status = "locked"
          /\ PrereqIds(result.before[i]) = {result.before[j].id}
          /\ records[i].status = "locked"

\* C18: schedule is pure: the node it was given is left unmodified, and the
\* node it returns differs from it only in familiarity, srsStage,
\* lastReviewed, nextReview and status; id, title, prerequisites, unlocks,
\* tags, created and body are the given node's.
C18_SchedulePure ==
    Scheduled =>
        /\ result.argument = Given
        /\ DOMAIN Returned = DOMAIN Given
        /\ \A field \in {"id", "title", "prerequisites", "unlocks", "tags",
                          "created", "body"} :
              Returned[field] = Given[field]

C18_Witness ==
    /\ Scheduled
    /\ Returned.familiarity # Given.familiarity
    /\ Returned.srsStage # Given.srsStage
    /\ Returned.status # Given.status
    /\ Returned.nextReview # Given.nextReview
    /\ Given.lastReviewed # Undefined
    /\ Returned.lastReviewed # Given.lastReviewed

----------------------------------------------------------------------------
(* The node files and the operations on them (src/src/index.ts).  In the    *)
(* specification below records holds the front matter of the node files,   *)
(* in the order loadNodes reads them; a status that is missing or empty is  *)
(* "".  Git sync is off (the default) and the index update succeeds.        *)

\* the front matter buildNodeContents writes for a new node
buildNodeContents(input, id, t) ==
    [id |-> id,
     title |-> "title",
     status |-> IF input.status = "" THEN "available" ELSE input.status,
     tags |-> <<"tag">>,
     prerequisites |-> input.prerequisites,
     unlocks |-> <<AbsentId>>,
     familiarity |-> 0,
     srsStage |-> 0,
     lastReviewed |-> Undefined,
     nextReview |-> Undefined,
     created |-> t,
     body |-> "body"]

normalizeStatus(status) ==
    IF status = "" THEN "available"
    ELSE IF status = "locked" THEN "locked"
    ELSE IF status = "in-progress" THEN "in-progress"
    ELSE IF status = "mastered" THEN "mastered"
    ELSE IF status = "paused" THEN "paused"
    ELSE "available"

normalizeFamiliarity(value) == clamp(value, 0, MaxFamiliarity)

\* the LearnNode loadNodes makes of one file
loadNode(data) ==
    [data EXCEPT
        !.status = normalizeStatus(IF data.status # "" THEN data.status
                                   ELSE IF data.prerequisites # <<>> THEN "locked"
                                   ELSE "available"),
        !.familiarity = normalizeFamiliarity(data.familiarity)]

loadNodes(files) == [i \in 1 .. Len(files) |-> loadNode(files[i])]

\* mutant: the file is written without the review date
saveNodeWithoutReviewDate(files, i, node, t) ==
    [files EXCEPT ![i] = [node EXCEPT !.lastReviewed = Undefined]]

\* saveNode(record, node) on the file at position i
saveNode(files, i, node, t) ==
    [files EXCEPT ![i] =
        [node EXCEPT !.created = IF node.created # Undefined THEN node.created
                                 ELSE IF files[i].created # Undefined THEN files[i].created
                                 ELSE t]]

\* positions.forEach((record) => saveNode(record, record.node))
RECURSIVE saveEach(_, _, _, _)
saveEach(files, recs, positions, t) ==
    IF positions = <<>> THEN files
    ELSE saveEach(saveNode(files, Head(positions), recs[Head(positions)], t),
                  recs, Tail(positions), t)

\* records.find((item) => item.node.id === id): the first position, 0 if none
find(recs, id) ==
    LET hits == {i \in 1 .. Len(recs) : recs[i].id = id}
    IN  IF hits = {} THEN 0 ELSE CHOOSE i \in hits : \A j \in hits : i <= j

addNode(files, input, t) ==
    Append(files, buildNodeContents(input, Len(files) + 1, t))

unlockNodes(files, threshold, t) ==
    LET out == unlockEligibleNodes(loadNodes(files), threshold)
    IN  [files |-> saveEach(files, out.records, out.unlocked, t),
         unlocked |-> out.unlocked,
         saved |-> out.unlocked,
         logged |-> IF out.unlocked # <<>>
                    THEN <<[line |-> "Unlocked", count |-> Len(out.unlocked)]>>
                    ELSE <<>>]

\* mutant: the returned node is started whatever its status
pickNodeStartingAny(files, threshold, start, t) ==
    LET out == unlockEligibleNodes(loadNodes(files), threshold)
        unlockedFiles == saveEach(files, out.records, out.unlocked, t)
        picked == pickNextNode(out.records, t)
        record == IF picked.node # 0 /\ start
                  THEN find(out.records, out.records[picked.node].id)
                  ELSE 0
    IN  [files |-> IF record # 0
                   THEN saveNode(unlockedFiles, record,
                                 [out.records[record] EXCEPT !.status = "in-progress"], t)
                   ELSE unlockedFiles,
         node |-> picked.node,
         reason |-> picked.reason,
         unlocked |-> out.unlocked,
         saved |-> IF record # 0 THEN Append(out.unlocked, record) ELSE out.unlocked]

pickNode(files, threshold, start, t) ==
    LET out == unlockEligibleNodes(loadNodes(files), threshold)
        unlockedFiles == saveEach(files, out.records, out.unlocked, t)
        picked == pickNextNode(out.records, t)
        record == IF picked.node # 0 /\ start
                  THEN find(out.records, out.records[picked.node].id)
                  ELSE 0
        starts == IF record = 0 THEN FALSE ELSE out.records[record].status = "available"
    IN  [files |-> IF starts
                   THEN saveNode(unlockedFiles, record,
                                 [out.records[record] EXCEPT !.status = "in-progress"], t)
                   ELSE unlockedFiles,
         node |-> picked.node,
         reason |-> picked.reason,
         unlocked |-> out.unlocked,
         saved |-> IF starts THEN Append(out.unlocked, record) ELSE out.unlocked]

\* mutant: a review of an unknown id falls back to the first node
reviewNodeFirstWhenUnknown(files, id, rating, intervals, threshold, t) ==
    LET recs == loadNodes(files)
        record == IF find(recs, id) = 0 /\ recs # <<>> THEN 1 ELSE find(recs, id)
    IN  IF record = 0
        THEN [files |-> files, error |-> "not-found", node |-> 0,
              saved |-> <<>>, logged |-> <<>>]
        ELSE LET updated == scheduleReviewCall(recs[record], rating, intervals,
                                               threshold, t).returned
             IN  [files |-> saveNode(files, record, updated, t),
                  error |-> "none",
                  node |-> record,
                  saved |-> <<record>>,
                  logged |-> <<[line |-> "Reviewed", id |-> updated.id,
                                rating |-> rating, stage |-> updated.srsStage]>>]

reviewNode(files, id, rating, intervals, threshold, t) ==
    LET recs == loadNodes(files)
        record == find(recs, id)
    IN  IF record = 0
        THEN [files |-> files, error |-> "not-found", node |-> 0,
              saved |-> <<>>, logged |-> <<>>]
        ELSE LET updated == scheduleReviewCall(recs[record], rating, intervals,
                                               threshold, t).returned
             IN  [files |-> saveNode(files, record, updated, t),
                  error |-> "none",
                  node |-> record,
                  saved |-> <<record>>,
                  logged |-> <<[line |-> "Reviewed", id |-> updated.id,
                                rating |-> rating, stage |-> updated.srsStage]>>]

----------------------------------------------------------------------------
(* Specification of the library: nodes are added, unlocked, picked and     *)
(* reviewed in any order while days pass.                                   *)

LibraryIntervals == <<1, 2>>
StatusInputs == {"", "locked", "paused"}
NodeInputs ==
    {[status |-> st, prerequisites |-> p] :
        st \in StatusInputs, p \in SeqsUpTo(1 .. MaxNodes, 1)}

Init ==
    /\ records = <<>>
    /\ now = 0
    /\ srsIntervals = LibraryIntervals
    /\ masteryThreshold = 4
    /\ result = NoResult
    /\ calls = <<>>

AddNode ==
    /\ Len(records) < MaxNodes
    /\ \E input \in NodeInputs :
          /\ records' = addNode(records, input, now)
          /\ result' = [NoResult EXCEPT !.op = "add", !.at = now, !.argument = input,
                                        !.target = Len(records) + 1,
                                        !.saved = <<Len(records) + 1>>]
    /\ UNCHANGED <<calls, now, srsIntervals, masteryThreshold>>

UnlockNodes ==
    LET out == unlockNodes(records, masteryThreshold, now)
    IN  /\ records' = out.files
        /\ result' = [NoResult EXCEPT !.op = "unlock", !.at = now,
                                      !.unlocked = out.unlocked,
                                      !.saved = out.saved, !.logged = out.logged]
        /\ UNCHANGED <<calls, now, srsIntervals, masteryThreshold>>

PickNode ==
    \E start \in BOOLEAN :
        LET out == pickNode(records, masteryThreshold, start, now)
        IN  /\ records' = out.files
            /\ result' = [NoResult EXCEPT !.op = "pick", !.at = now, !.argument = start,
                                          !.returned = out.node, !.reason = out.reason,
                                          !.unlocked = out.unlocked, !.saved = out.saved]
            /\ UNCHANGED <<calls, now, srsIntervals, masteryThreshold>>

ReviewNode ==
    \E id \in 0 .. MaxNodes, rating \in Ratings :
        LET out == reviewNode(records, id, rating, srsIntervals, masteryThreshold, now)
        IN  /\ records' = out.files
            /\ result' = [NoResult EXCEPT !.op = "review", !.at = now, !.target = id,
                                          !.rating = rating, !.error = out.error,
                                          !.returned = out.node,
                                          !.saved = out.saved, !.logged = out.logged]
            /\ UNCHANGED <<calls, now, srsIntervals, masteryThreshold>>

DayPasses ==
    /\ now + TicksPerDay <= MaxTime * TicksPerDay
    /\ now' = now + TicksPerDay
    /\ result' = [NoResult EXCEPT !.op = "day", !.at = now + TicksPerDay]
    /\ UNCHANGED <<calls, records, srsIntervals, masteryThreshold>>

Next == AddNode \/ UnlockNodes \/ PickNode \/ ReviewNode \/ DayPasses

Spec == Init /\ [][Next]_vars

----------------------------------------------------------------------------
(* Specification of reviewNode alone: reviews, of known and unknown ids,   *)
(* of a library of newly created nodes.                                     *)

ReviewInputs == {[status |-> st, prerequisites |-> <<>>] : st \in StatusInputs}

InitReview ==
    /\ now = 0
    /\ srsIntervals = LibraryIntervals
    /\ masteryThreshold = 4
    /\ \E n \in 0 .. MaxNodes :
          \E drawn \in [1 .. n -> ReviewInputs] :
              records = [i \in 1 .. n |-> buildNodeContents(drawn[i], i, 0)]
    /\ result = NoResult
    /\ calls = <<>>

NextReview == ReviewNode

SpecReview == InitReview /\ [][NextReview]_vars

----------------------------------------------------------------------------
\* the node the last addNode created, as loadNodes reads it back
Created == loadNodes(records)[result.target]

\* C14: a node created without an explicit status and then loaded is locked
\* if it declares at least one prerequisite and available otherwise, with
\* familiarity 0, srsStage 0 and no lastReviewed or nextReview.
C14_CreatedLockedIffPrerequisites ==
    (result.op = "add" /\ result.argument.status = "") =>
        /\ Created.status = IF Created.prerequisites # <<>> THEN "locked" ELSE "available"
        /\ Created.familiarity = 0
        /\ Created.srsStage = 0
        /\ Created.lastReviewed = Undefined
        /\ Created.nextReview = Undefined

\* C15: a review of an id that matches no node ends in the not-found error;
\* the node files are left as they were, nothing is saved and no session log
\* line is written.
C15_UnknownIdChangesNothing ==
    [][(result'.op = "review" /\ find(loadNodes(records), result'.target) = 0) =>
          /\ result'.error = "not-found"
          /\ records' = records
          /\ result'.saved = <<>>
          /\ result'.logged = <<>>]_vars

C15_Witness ==
    /\ result.op = "review"
    /\ result.error = "not-found"
    /\ records # <<>>
    /\ find(loadNodes(records), result.target) = 0

StatusOf(files, i) == loadNodes(files)[i].status

\* C20: over unlock, next and review operations a status leaves locked only
\* in the unlock step and only when the node's prerequisites are all
\* satisfied; a review only moves an available or in-progress node, to
\* in-progress or mastered; and a status that is not locked never becomes
\* locked.
C20_StatusLifecycle ==
    [][\A i \in 1 .. Len(records) :
          LET recs == loadNodes(records)
              old == StatusOf(records, i)
              new == StatusOf(records', i)
          IN  /\ (old = "locked" /\ new # "locked") =>
                    /\ result'.op \in {"unlock", "pick"}
                    /\ \E k \in 1 .. Len(result'.unlocked) : result'.unlocked[k] = i
                    /\ meetsPrereqs(recs, recs[i], masteryThreshold)
              /\ (result'.op = "review" /\ result'.returned = i) =>
                    /\ old \in {"available", "in-progress"}
                    /\ new \in {"in-progress", "mastered"}
              /\ (old # "locked") => new # "locked"]_vars

----------------------------------------------------------------------------
(* Invocations from separate processes.  No handler takes a lock: each      *)
(* loads the node files (loadNodes), computes its changes on that snapshot  *)
(* and then writes them with one saveNode per changed node.  Another        *)
(* process can run between the load and each write.  The load is taken as   *)
(* one step, which leaves out interleavings but adds none.                  *)

\* one write: the position of the file and the front matter saveNode puts there
write(files, position, node, t) ==
    [position |-> position, file |-> saveNode(files, position, node, t)[position]]

\* unlocked.forEach((record) => saveNode(record, record.node))
writesOfUnlock(files, threshold, t) ==
    LET out == unlockEligibleNodes(loadNodes(files), threshold)
    IN  [k \in 1 .. Len(out.unlocked) |->
            write(files, out.unlocked[k], out.records[out.unlocked[k]], t)]

\* mutant: the start of the picked node is not written
writesOfPickWithoutStart(files, threshold, start, t) ==
    writesOfUnlock(files, threshold, t)

\* the writes of pickNode: the unlocked nodes, then the started node
writesOfPick(files, threshold, start, t) ==
    LET out == unlockEligibleNodes(loadNodes(files), threshold)
        picked == pickNextNode(out.records, t)
        record == IF picked.node # 0 /\ start
                  THEN find(out.records, out.records[picked.node].id)
                  ELSE 0
        starts == IF record = 0 THEN FALSE ELSE out.records[record].status = "available"
    IN  IF starts
        THEN Append(writesOfUnlock(files, threshold, t),
                    write(files, record,
                          [out.records[record] EXCEPT !.status = "in-progress"], t))
        ELSE writesOfUnlock(files, threshold, t)

\* the write of reviewNode: the rescheduled node, none when the id is unknown
writesOfReview(files, id, rating, intervals, threshold, t) ==
    LET recs == loadNodes(files)
        record == find(recs, id)
    IN  IF record = 0 THEN <<>>
        ELSE <<write(files, record,
                     scheduleReviewCall(recs[record], rating, intervals,
                                        threshold, t).returned, t)>>

writesOf(request, files, intervals, threshold, t) ==
    IF request.op = "unlock" THEN writesOfUnlock(files, threshold, t)
    ELSE IF request.op = "pick" THEN writesOfPick(files, threshold, request.start, t)
    ELSE writesOfReview(files, request.id, request.rating, intervals, threshold, t)

\* the node files after the whole handler has run on them with nothing in between
handled(request, files, intervals, threshold, t) ==
    IF request.op = "unlock" THEN unlockNodes(files, threshold, t).files
    ELSE IF request.op = "pick" THEN pickNode(files, threshold, request.start, t).files
    ELSE reviewNode(files, request.id, request.rating, intervals, threshold, t).files

Callers == 1 .. MaxCallers

Requests ==
    {[op |-> "unlock", id |-> 0, rating |-> "none", start |-> FALSE]}
    \cup {[op |-> "pick", id |-> 0, rating |-> "none", start |-> b] : b \in BOOLEAN}
    \cup {[op |-> "review", id |-> i, rating |-> r, start |-> FALSE] :
              i \in 1 .. MaxNodes, r \in Ratings}

\* the library the invocations find: new nodes, to start or locked with nothing to wait for
ConcurrentInputs ==
    {[status |-> st, prerequisites |-> <<>>] : st \in {"", "locked"}}

NoCall == [pc |-> "idle", request |-> <<>>, pending |-> <<>>]

InitConcurrent ==
    /\ now = 0
    /\ srsIntervals = LibraryIntervals
    /\ masteryThreshold = 4
    /\ \E n \in 1 .. MaxNodes :
          \E drawn \in [1 .. n -> ConcurrentInputs] :
              records = [i \in 1 .. n |-> buildNodeContents(drawn[i], i, 0)]
    /\ result = [NoResult EXCEPT !.serial = records]
    /\ calls = [c \in Callers |-> NoCall]

\* an invocation starts: it reads every node file and computes its writes
Load(c) ==
    /\ calls[c].pc = "idle"
    /\ \E request \in Requests :
          LET writes == writesOf(request, records, srsIntervals, masteryThreshold, now)
          IN  /\ calls' = [calls EXCEPT ![c] =
                              [pc |-> IF writes = <<>> THEN "done" ELSE "loaded",
                               request |-> request,
                               pending |-> writes]]
              /\ result' = [result EXCEPT
                    !.op = "load", !.target = c,
                    !.overlapped = result.overlapped
                                   \/ \E d \in Callers \ {c} : calls[d].pc = "loaded",
                    !.serial = IF writes = <<>>
                               THEN handled(request, result.serial, srsIntervals,
                                            masteryThreshold, now)
                               ELSE result.serial]
    /\ UNCHANGED <<records, now, srsIntervals, masteryThreshold>>

\* an invocation makes its next write, from what it loaded
Save(c) ==
    /\ calls[c].pc = "loaded"
    /\ LET w == Head(calls[c].pending)
           rest == Tail(calls[c].pending)
       IN  /\ records' = [records EXCEPT ![w.position] = w.file]
           /\ calls' = [calls EXCEPT ![c].pending = rest,
                                     ![c].pc = IF rest = <<>> THEN "done" ELSE "loaded"]
           /\ result' = [result EXCEPT
                 !.op = "save", !.target = c,
                 !.serial = IF rest = <<>>
                            THEN handled(calls[c].request, result.serial, srsIntervals,
                                         masteryThreshold, now)
                            ELSE result.serial]
    /\ UNCHANGED <<now, srsIntervals, masteryThreshold>>

NextConcurrent == \E c \in Callers : Load(c) \/ Save(c)

SpecConcurrent == InitConcurrent /\ [][NextConcurrent]_vars

NoneInProgress == \A c \in Callers : calls[c].pc # "loaded"
AllDone == \A c \in Callers : calls[c].pc = "done"

\* C21: when every invocation ran from its load to its last save with no
\* other invocation in between, the node files are what the handlers give
\* run one after the other: no update is lost.  (That a lost update is
\* reachable when invocations overlap is C21_Witness.)
C21_SerializedLosesNothing ==
    (~result.overlapped /\ NoneInProgress) => records = result.serial

\* two reviews of the same node overlapped and the files are not what the
\* two reviews give one after the other: one review was overwritten
C21_Witness ==
    /\ AllDone
    /\ result.overlapped
    /\ records # result.serial
    /\ \E c \in Callers, d \in Callers :
          /\ c # d
          /\ calls[c].request.op = "review"
          /\ calls[d].request.op = "review"
          /\ calls[c].request.id = calls[d].request.id

\* the start written by pickNode overwrote a review of the same node
C21_StartOverwritesReview ==
    /\ AllDone
    /\ result.overlapped
    /\ \E c \in Callers, d \in Callers, i \in 1 .. Len(records) :
          /\ calls[c].request.op = "pick" /\ calls[c].request.start
          /\ calls[d].request.op = "review" /\ calls[d].request.id = i
          /\ result.serial[i].lastReviewed # Undefined
          /\ records[i].lastReviewed = Undefined
          /\ records[i].status = "in-progress"

----------------------------------------------------------------------------
\* C22: a second unlockEligibleNodes on the set a first call produced, with
\* the same masteryThreshold and no review in between, reports no node and
\* changes nothing; so a node left locked behind a prerequisite that was only
\* unlocked stays locked until a review changes that prerequisite.
C22_ResolveIdempotent ==
    Resolved =>
        LET again == unlockEligibleNodes(records, masteryThreshold)
        IN  /\ again.unlocked = <<>>
            /\ again.records = records

\* the first call unlocked a node and left a dependent of that node locked
C22_Witness ==
    /\ Resolved
    /\ result.unlocked # <<>>
    /\ \E i \in 1 .. Len(records) :
          /\ records[i].status = "locked"
          /\ \E k \in 1 .. Len(records[i].prerequisites) :
                /\ records[i].prerequisites[k] # records[i].id
                /\ records[i].prerequisites[k] \in UnlockedIds(records, result.unlocked)

----------------------------------------------------------------------------
(* Specification of pickNode alone, on node files of every status, with    *)
(* and without a status field, a due review or a prerequisite.              *)

PickFamiliarities == {0, 4}
PickStatuses == Statuses \cup {""}

PickPrereqs(n, status) ==
    IF status \in {"", "locked"} THEN SeqsUpTo(1 .. n, 1) ELSE {<<>>}

PickFiles(n) ==
    UNION {{[id |-> 0, status |-> st, familiarity |-> f, srsStage |-> 0,
             lastReviewed |-> Undefined, nextReview |-> r,
             created |-> 0, prerequisites |-> p,
             title |-> "title", tags |-> <<"tag">>,
             unlocks |-> <<AbsentId>>, body |-> "body"] :
                f \in PickFamiliarities, r \in {Undefined, 0}, p \in PickPrereqs(n, st)} :
           st \in PickStatuses}

InitPick ==
    /\ now = 0
    /\ srsIntervals = LibraryIntervals
    /\ masteryThreshold = 4
    /\ \E n \in 0 .. MaxNodes :
          \E drawn \in [1 .. n -> PickFiles(n)] :
              records = [i \in 1 .. n |-> [drawn[i] EXCEPT !.id = i]]
    /\ result = NoResult
    /\ calls = <<>>

NextPick == PickNode

SpecPick == InitPick /\ [][NextPick]_vars

InSeq(x, seq) == \E k \in 1 .. Len(seq) : seq[k] = x

----------------------------------------------------------------------------
\* C24: starting from newly created nodes, after any unlock, next and review
\* operations every node that has a lastReviewed is in-progress or mastered,
\* and mastered iff its familiarity >= masteryThreshold; every node without a
\* lastReviewed still has familiarity 0, srsStage 0 and no nextReview.
C24_ReviewedIffProgressed ==
    \A i \in 1 .. Len(records) :
        LET node == loadNodes(records)[i]
        IN  IF node.lastReviewed # Undefined
            THEN /\ node.status \in {"in-progress", "mastered"}
                 /\ node.status = "mastered" <=> node.familiarity >= masteryThreshold
            ELSE /\ node.familiarity = 0
                 /\ node.srsStage = 0
                 /\ node.nextReview = Undefined

\* a reviewed node reached mastery and unlocked a dependent, which was then
\* started without a review
C24_Witness ==
    \E i \in 1 .. Len(records), j \in 1 .. Len(records) :
        /\ records[i].lastReviewed # Undefined
        /\ records[i].status = "mastered"
        /\ records[j].lastReviewed = Undefined
        /\ records[j].prerequisites = <<i>>
        /\ i # j
        /\ records[j].status = "in-progress"

====
